---- MODULE Spec2Model ----
(***************************************************************************)
(* State-machine model of deploy.py (UV Deploy Tools): the runtime version *)
(* resolver, the artifact cache, package assembly and the deploy loop.     *)
(*                                                                         *)
(* A version string is modelled by the sequence of its dot-separated       *)
(* numbers: "3.11" is <<3, 11>>, "3.11.0" is <<3, 11, 0>>, "3" is <<3>>    *)
(* and the empty string is <<>>.  Str gives the characters of the string,  *)
(* so that string order and string prefixes are those of Python.           *)
(***************************************************************************)
EXTENDS Integers, Sequences, FiniteSets, TLC

\* Bounds of the model.
ClockPeriod == 2
MaxTargets == 2

\* Python's None, a value that is no version string.
NoneV == <<-1>>

\* Truthiness of a str-or-None value: None and "" are falsy.
Falsy(v) == v = NoneV \/ v = <<>>

(***************************************************************************)
(* Strings                                                                 *)
(***************************************************************************)
RECURSIVE Digits(_)
\* The characters (ASCII codes) of the decimal rendering of n.
Digits(n) ==
    IF n < 10 THEN <<48 + n>> ELSE Digits(n \div 10) \o <<48 + (n % 10)>>

RECURSIVE Str(_)
\* The characters of a version string, "." being character 46.
Str(v) ==
    IF v = <<>> THEN <<>>
    ELSE IF Len(v) = 1 THEN Digits(v[1])
    ELSE Digits(v[1]) \o <<46>> \o Str(Tail(v))

RECURSIVE StrLess(_, _)
\* Python's < on strings: lexicographic on characters.
StrLess(a, b) ==
    IF b = <<>> THEN FALSE
    ELSE IF a = <<>> THEN TRUE
    ELSE IF a[1] # b[1] THEN a[1] < b[1]
    ELSE StrLess(Tail(a), Tail(b))

\* a is a prefix of b (glob pattern "a*").
IsPrefix(a, b) == Len(a) <= Len(b) /\ SubSeq(b, 1, Len(a)) = a

(***************************************************************************)
(* Version catalogs                                                        *)
(***************************************************************************)
\* re.match(r'(\d+)\.(\d+)(?:\.(\d+))?', requested_version) succeeds.
Matches(requested_version) == Len(requested_version) >= 2

\* '.'.join(ver.split('.')[:2]) and f"{major}.{minor}".
Short(ver) == SubSeq(ver, 1, 2)

\* The second element returned by find_best_python_version.
InfoTuple(full, build) == [kind |-> "tuple", val |-> <<full, build>>]
InfoStr(s) == [kind |-> "str", val |-> <<s>>]
InfoNone == [kind |-> "none", val |-> <<NoneV>>]

\* The static table of standalone Linux builds.
LinuxCatalog ==
    (<<3, 13>> :> InfoTuple(<<3, 13, 0>>, <<20241016>>))
    @@ (<<3, 12>> :> InfoTuple(<<3, 12, 7>>, <<20241016>>))
    @@ (<<3, 11>> :> InfoTuple(<<3, 11, 10>>, <<20240909>>))
    @@ (<<3, 10>> :> InfoTuple(<<3, 10, 15>>, <<20240909>>))

\* The cpython-* folders that may sit in the operator's uv install tree:
\* base "roaming" is AppData/Roaming/uv/python, "local" is .local/share/uv/python;
\* plat "windows" is a folder named cpython-<ver>-windows-x86_64-none.
Folder(ver, plat, base) == [ver |-> ver, plat |-> plat, base |-> base]
FolderUniverse ==
    { Folder(<<3, 9, 0>>, "windows", "roaming"),
      Folder(<<3, 10, 0>>, "windows", "roaming"),
      Folder(<<3, 10, 4>>, "other", "roaming") }

\* The catalogs the scan of the Roaming tree can build: one entry per short
\* version; of several folders with one short version the last one globbed wins,
\* and glob order is unspecified.
WindowsCatalogs(tree) ==
    LET roaming == {f \in tree : f.base = "roaming"}
        keys == {Short(f.ver) : f \in roaming}
        infos == {InfoTuple(f.ver, NoneV) : f \in roaming}
    IN  { c \in [keys -> infos] :
            \A k \in keys : \E f \in roaming :
                Short(f.ver) = k /\ c[k] = InfoTuple(f.ver, NoneV) }

Catalogs(target_os, tree) ==
    IF target_os = "linux" THEN {LinuxCatalog} ELSE WindowsCatalogs(tree)

(***************************************************************************)
(* find_best_python_version                                                *)
(***************************************************************************)
\* The FallbackRecord file cache/.python_fallback_<project>.
NoFile == [exists |-> FALSE, original |-> NoneV, used |-> NoneV, ts |-> 0]
Record(original, used, ts) ==
    [exists |-> TRUE, original |-> original, used |-> used, ts |-> ts]

\* The fallback scan with its comparisons turned round.
IsLowerReversed(v_major, v_minor, major, minor) ==
    v_major > major \/ (v_major = major /\ v_minor > minor)

\* The test of the fallback scan.
IsLower(v_major, v_minor, major, minor) ==
    v_major < major \/ (v_major = major /\ v_minor < minor)

\* First key of sorted(..., reverse=True): the greatest key in string order.
MaxStr(keys) ==
    CHOOSE k \in keys : \A j \in keys : j = k \/ StrLess(Str(j), Str(k))

RECURSIVE ScanFallback(_, _, _)
\* The loop over the catalog in descending string order, left at the first
\* entry below the request; None when there is none.
ScanFallback(keys, major, minor) ==
    IF keys = {} THEN NoneV
    ELSE LET k == MaxStr(keys)
         IN  IF IsLower(k[1], k[2], major, minor) THEN k
             ELSE ScanFallback(keys \ {k}, major, minor)

\* The record file after a fallback was chosen.
WriteFallback(fb, requested_version, fallback_version, clock) ==
    Record(requested_version, fallback_version, clock)

\* An exact-match branch that writes a record as the fallback branch does.
ExactMatchFileWrites(fb, requested_version, requested_short, clock) ==
    Record(requested_version, requested_short, clock)

\* The record file after an exact match.
ExactMatchFile(fb, requested_version, requested_short, clock) == fb

\* An unresolved branch that removes the record.
UnresolvedFileDeletes(fb, requested_version, clock) == NoFile

\* The record file when nothing at or below the request exists.
UnresolvedFile(fb, requested_version, clock) == fb

\* What is returned for a string the pattern does not match.
MalformedResult(requested_version) ==
    [best |-> requested_version, info |-> InfoStr(requested_version)]

\* find_best_python_version: [best, info, fb] where fb is the record file after
\* the call.
FindBest(requested_version, available_versions, fb, clock) ==
    IF ~Matches(requested_version)
    THEN [best |-> MalformedResult(requested_version).best,
          info |-> MalformedResult(requested_version).info,
          fb |-> fb]
    ELSE LET major == requested_version[1]
             minor == requested_version[2]
             requested_short == <<major, minor>>
             fallback_version ==
                 ScanFallback(DOMAIN available_versions, major, minor)
         IN  IF requested_short \in DOMAIN available_versions
             THEN [best |-> requested_short,
                   info |-> available_versions[requested_short],
                   fb |-> ExactMatchFile(fb, requested_version,
                                         requested_short, clock)]
             ELSE IF fallback_version # NoneV
             THEN [best |-> fallback_version,
                   info |-> available_versions[fallback_version],
                   fb |-> WriteFallback(fb, requested_version,
                                        fallback_version, clock)]
             ELSE [best |-> NoneV, info |-> InfoNone,
                   fb |-> UnresolvedFile(fb, requested_version, clock)]

(***************************************************************************)
(* download_uv                                                             *)
(***************************************************************************)
\* The deterministic cache path of the tool binary.
UvCachePath(target_os) ==
    IF target_os = "windows" THEN "cache/uv.exe_windows" ELSE "cache/uv_linux"

\* A download_uv that does not look at the cache path.
UvAlwaysDownload(entry) == TRUE

\* Whether the download branch is taken.
UvMustDownload(entry) == entry = "absent"

\* download_uv: uvNet is what the network and the downloaded archive do:
\* "ok", "error" (urlretrieve or the extraction raises) or "nofile" (the
\* archive holds no uv executable).
DownloadUv(target_os, uvc, uvNet) ==
    LET path == UvCachePath(target_os)
    IN  IF ~UvMustDownload(uvc[path])
        THEN [result |-> "true", cache |-> uvc, downloaded |-> FALSE,
              path |-> path]
        ELSE IF uvNet = "ok"
        THEN [result |-> "true", cache |-> [uvc EXCEPT ![path] = "complete"],
              downloaded |-> TRUE, path |-> path]
        ELSE IF uvNet = "nofile" /\ target_os # "windows"
        THEN [result |-> "false", cache |-> uvc, downloaded |-> TRUE,
              path |-> path]
        ELSE [result |-> "raise", cache |-> uvc, downloaded |-> TRUE,
              path |-> path]

(***************************************************************************)
(* copy_python                                                             *)
(***************************************************************************)
\* base_path.glob(f"cpython-{best_version}*-windows-x86_64-none") in one base.
GlobBase(tree, base, best_version) ==
    { f \in tree : f.base = base /\ f.plat = "windows"
                   /\ IsPrefix(Str(best_version), Str(f.ver)) }

\* The folders found in the first base path that has a match.
GlobFound(tree, best_version) ==
    IF GlobBase(tree, "roaming", best_version) # {}
    THEN GlobBase(tree, "roaming", best_version)
    ELSE GlobBase(tree, "local", best_version)

\* A copy_python that does not read the record.
EffectiveRequestIgnoresRecord(fb, python_version) == python_version

\* The version passed to the resolver: the record's original when a record exists.
EffectiveRequest(fb, python_version) ==
    IF fb.exists THEN fb.original ELSE python_version

\* A deletion test that does not compare the versions.
DeleteCondAnyVersion(best_version, python_version, fb) == fb.exists

\* The test that guards fallback_file.unlink().
DeleteCond(best_version, python_version, fb) ==
    best_version = python_version /\ fb.exists

\* Whether the runtime download branch is taken.
PyMustDownload(entry) == entry = "absent"

\* The runtime cache entry after the download branch: pyNet is "ok", "error"
\* (urlretrieve raises, nothing extracted) or "partial" (extractall raises after
\* it created the directory).
PyAfterDownload(pyNet) ==
    IF pyNet = "ok" THEN "complete"
    ELSE IF pyNet = "partial" THEN "partial" ELSE "absent"

\* No call: the observation of a step that did not reach the resolver.
NoRes ==
    [called |-> FALSE, os |-> "none", req |-> NoneV, best |-> NoneV,
     info |-> InfoNone, fbAfter |-> NoFile]
NoCp ==
    [called |-> FALSE, os |-> "none", result |-> "none", fbBefore |-> NoFile,
     ensure |-> "none", downloaded |-> FALSE, key |-> NoneV,
     bundled |-> NoneV, source |-> NoneV, deleted |-> FALSE]

\* The end of copy_python: copytree, then the deletion of the record.
CopyTail(r, pv, target_os, fb0, pyc, ensure, downloaded, source, copyOk) ==
    LET res == [called |-> TRUE, os |-> target_os, req |-> pv,
                best |-> r.best, info |-> r.info, fbAfter |-> r.fb]
        base == [called |-> TRUE, os |-> target_os, fbBefore |-> fb0,
                 ensure |-> ensure, downloaded |-> downloaded,
                 key |-> r.best, source |-> source]
    IN  IF ~copyOk
        THEN [result |-> "raise", fb |-> r.fb, pyCache |-> pyc, res |-> res,
              cp |-> base @@ [result |-> "raise", bundled |-> NoneV,
                              deleted |-> FALSE]]
        ELSE IF DeleteCond(r.best, pv, r.fb)
        THEN [result |-> "true", fb |-> NoFile, pyCache |-> pyc, res |-> res,
              cp |-> base @@ [result |-> "true", bundled |-> r.best,
                              deleted |-> TRUE]]
        ELSE [result |-> "true", fb |-> r.fb, pyCache |-> pyc, res |-> res,
              cp |-> base @@ [result |-> "true", bundled |-> r.best,
                              deleted |-> FALSE]]

\* A return or raise of copy_python before copytree.
CopyStop(result, r, pv, target_os, fb0, pyc, ensure, downloaded) ==
    [result |-> result, fb |-> r.fb, pyCache |-> pyc,
     res |-> [called |-> TRUE, os |-> target_os, req |-> pv, best |-> r.best,
              info |-> r.info, fbAfter |-> r.fb],
     cp |-> [called |-> TRUE, os |-> target_os, result |-> result,
             fbBefore |-> fb0, ensure |-> ensure, downloaded |-> downloaded,
             key |-> r.best, bundled |-> NoneV, source |-> NoneV,
             deleted |-> FALSE]]

\* copy_python(deploy_dir, python_version) from the resolver's answer on: pv is
\* the version that was passed to the resolver and r what it returned, pick the
\* folder glob lists first, pyNet the outcome of a runtime download, copyOk
\* whether copytree completes.
CopyPython(r, pv, target_os, tree, fb, pyc, pyNet, copyOk, pick) ==
    IF Falsy(r.best)
    THEN CopyStop("false", r, pv, target_os, fb, pyc, "none", FALSE)
    ELSE IF target_os = "windows"
    THEN LET found == GlobFound(tree, r.best)
         IN  IF found = {}
             THEN CopyStop("false", r, pv, target_os, fb, pyc, "fail", FALSE)
             ELSE LET python_path ==
                          IF pick \in found THEN pick
                          ELSE CHOOSE f \in found : TRUE
                  IN  CopyTail(r, pv, target_os, fb, pyc, "ok", FALSE,
                               python_path.ver, copyOk)
    ELSE \* Linux: full_version, build_date = version_info
         IF r.info.kind = "str" /\ Len(Str(r.info.val[1])) # 2
         THEN CopyStop("raise", r, pv, target_os, fb, pyc, "none", FALSE)
         ELSE IF PyMustDownload(pyc[r.best])
         THEN IF pyNet = "ok"
              THEN CopyTail(r, pv, target_os, fb,
                            [pyc EXCEPT ![r.best] = PyAfterDownload(pyNet)],
                            "ok", TRUE, r.best, copyOk)
              ELSE CopyStop("false", r, pv, target_os, fb,
                            [pyc EXCEPT ![r.best] = PyAfterDownload(pyNet)],
                            "fail", TRUE)
         ELSE CopyTail(r, pv, target_os, fb, pyc, "ok", FALSE, r.best,
                       copyOk)

(***************************************************************************)
(* create_deployment_package and run                                       *)
(***************************************************************************)
NoUv ==
    [called |-> FALSE, os |-> "none", path |-> "none", downloaded |-> FALSE,
     result |-> "none"]

\* get_project_version: the manifest's project.version, else "0.1.0".  A
\* manifest is [exists, hasProject, version], version NoneV when the field is
\* absent.
GetProjectVersion(manifest) ==
    IF ~manifest.exists THEN <<0, 1, 0>>
    ELSE IF ~manifest.hasProject THEN <<0, 1, 0>>
    ELSE IF manifest.version = NoneV THEN <<0, 1, 0>>
    ELSE manifest.version

\* Month and day written without padding.
Pad2Unpadded(n) == Digits(n)

\* Two decimal digits, zero-padded (%m, %d).
Pad2(n) == IF n < 10 THEN <<48>> \o Digits(n) ELSE Digits(n)

\* datetime.now().strftime('%Y%m%d') for the date <<year, month, day>>.
DateStr(date) == Digits(date[1]) \o Pad2(date[2]) \o Pad2(date[3])

\* f"{self.project_name}-v{version}-{date_str}.zip", as characters.
PackageName(project_name, version, date_str) ==
    project_name \o <<45, 118>> \o Str(version) \o <<45>> \o date_str
    \o <<46, 122, 105, 112>>

\* The version create_batch_scripts writes into the setup script: the name of
\* the python-* directory found in the staging directory on Linux, the
\* python_version argument otherwise.
ActualVersion(target_os, python_version, bundled) ==
    IF target_os = "linux"
    THEN (IF bundled # NoneV THEN bundled ELSE python_version)
    ELSE python_version

\* zipfile.ZipFile(zip_path, 'w'): what happens to the file of that name.
ZipWrite(pkgs, name) == IF name \in pkgs THEN "overwritten" ELSE "created"

\* A staging directory that is removed only after the archive was written.
StagingKeptOnFailure(exit) == IF exit = "path" THEN "removed" ELSE "exists"

\* The staging directory when the with tempfile.TemporaryDirectory() block is
\* left by exit: "path", "none" (return None) or "raise".
StagingAfter(exit) == "removed"

\* What create_deployment_package did to the packages directory and the staging
\* directory when it stopped before create_batch_scripts.
NoArchive(pkgs, exit) ==
    [packages |-> pkgs, zip |-> "none", script |-> NoneV, name |-> <<>>,
     staging |-> StagingAfter(exit)]

\* create_deployment_package: "path" (the archive), "none" or "raise"; u is what
\* download_uv did and c what copy_python did after it, python_version what
\* get_python_version returned, name the archive name and zipOk whether the
\* compression completes.
CreatePackage(u, c, target_os, fb, pyc, python_version, pkgs, name, zipOk) ==
    LET uv == [called |-> TRUE, os |-> target_os, path |-> u.path,
               downloaded |-> u.downloaded, result |-> u.result]
        exit == IF u.result = "raise" THEN "raise"
                ELSE IF u.result = "false" THEN "none"
                ELSE IF c.result = "raise" THEN "raise"
                ELSE IF c.result = "false" THEN "none"
                ELSE IF zipOk THEN "path" ELSE "raise"
    IN  IF u.result # "true"
        THEN [result |-> exit, fb |-> fb, uvCache |-> u.cache, pyCache |-> pyc,
              uv |-> uv, res |-> NoRes, cp |-> NoCp,
              zip |-> NoArchive(pkgs, exit)]
        ELSE IF c.result # "true"
        THEN [result |-> exit, fb |-> c.fb, uvCache |-> u.cache,
              pyCache |-> c.pyCache, uv |-> uv, res |-> c.res, cp |-> c.cp,
              zip |-> NoArchive(pkgs, exit)]
        ELSE [result |-> exit, fb |-> c.fb, uvCache |-> u.cache,
              pyCache |-> c.pyCache, uv |-> uv, res |-> c.res, cp |-> c.cp,
              zip |-> [packages |-> pkgs \cup {name},
                       zip |-> ZipWrite(pkgs, name),
                       script |-> ActualVersion(target_os, python_version,
                                                c.cp.bundled),
                       name |-> name,
                       staging |-> StagingAfter(exit)]]

(***************************************************************************)
(* connect, transfer_package, test_deployment and run                      *)
(***************************************************************************)
\* connect(): outcome is "ok", "refused" (ssh.connect raises) or "nosftp"
\* (open_sftp raises on the connected client).  session is the SSH session of
\* the target: "none", "open" or "closed".
Connect(outcome) ==
    [result |-> outcome = "ok",
     session |-> IF outcome = "refused" THEN "none" ELSE "open"]

\* The finally clause of run().
CloseSession(session) == IF session = "open" THEN "closed" ELSE session

\* The permission commands of transfer_package.
ChmodCommands ==
    <<"chmod +x uv", "chmod +x *.sh", "find python-* -name bin -exec chmod",
      "chmod -R +x python-*/bin/*">>

\* A transfer_package that deletes the uploaded archive before it extracts it.
TransferOpsCleanupFirst(target_os, cleanup) ==
    (IF target_os = "windows"
     THEN <<"if not exist package_dir mkdir", "if not exist final_dir mkdir",
            "sftp write">>
     ELSE <<"mkdir -p package_dir", "mkdir -p final_dir", "sftp write">>)
    \o (IF ~cleanup THEN <<>>
        ELSE IF target_os = "windows" THEN <<"del">> ELSE <<"rm -f">>)
    \o (IF target_os = "windows" THEN <<"tar -xf">>
        ELSE <<"tar -xzf || unzip -q">>)
    \o (IF target_os = "linux" THEN ChmodCommands ELSE <<>>)
    \o (IF target_os = "windows" THEN <<"setup.bat">>
        ELSE <<"chmod +x setup.sh && ./setup.sh">>)

\* The remote operations of transfer_package, in the order it issues them;
\* cleanup is server_config.get('cleanup_package', True).
TransferOps(target_os, cleanup) ==
    (IF target_os = "windows"
     THEN <<"if not exist package_dir mkdir", "if not exist final_dir mkdir",
            "sftp write", "tar -xf">>
     ELSE <<"mkdir -p package_dir", "mkdir -p final_dir", "sftp write",
            "tar -xzf || unzip -q">>)
    \o (IF target_os = "linux" THEN ChmodCommands ELSE <<>>)
    \o (IF ~cleanup THEN <<>>
        ELSE IF target_os = "windows" THEN <<"del">> ELSE <<"rm -f">>)
    \o (IF target_os = "windows" THEN <<"setup.bat">>
        ELSE <<"chmod +x setup.sh && ./setup.sh">>)

\* The command of test_deployment.
TestCmd(target_os) ==
    IF target_os = "windows" THEN ".venv\\Scripts\\python.exe main.py"
    ELSE ".venv/bin/python main.py"

\* The remote operations of a run that reaches them all.
RemoteOps(target_os, cleanup) ==
    TransferOps(target_os, cleanup) \o <<TestCmd(target_os)>>

\* The exit statuses a remote command may end with.
ExitStatuses == {0, 1}

\* The exit statuses of the operations of a run, one per operation; the write
\* of the archive is no command and has none (0 stands for that).
StatusInputs(ops) ==
    {st \in [1..Len(ops) -> ExitStatuses] :
        \A i \in 1..Len(ops) : ops[i] = "sftp write" => st[i] = 0}

\* The statuses of commands that all end with status 0.
AllZero(ops) == [i \in 1..Len(ops) |-> 0]

\* A transfer_package that gives up after a command whose status is not 0.
CommandAbortsOnFailure(status) == status # 0

\* Whether the exit status of a command makes transfer_package or
\* test_deployment give up: exec_command's channel status is never read.
CommandAborts(status) == FALSE

\* The number of operations issued: those before the one that raises (stop),
\* or up to the first command whose status makes the function give up.
StopAt(ops, stop, statuses) ==
    LET bad == {i \in 1..stop : CommandAborts(statuses[i])}
    IN  IF bad = {} THEN stop ELSE CHOOSE i \in bad : \A j \in bad : i <= j

\* What the smoke test's program may write: its standard output and its error
\* output, each empty or not.
SmokeResults == [output : {"", "hello"}, error : {"", "Traceback"}]
NoSmoke == [output |-> "none", error |-> "none"]

\* A test_deployment that only looks at the standard output.
TestDeploymentIgnoresError(output, error) == output # ""

\* test_deployment's result: bool(output) and not bool(error).
TestDeployment(output, error) == output # "" /\ error = ""

\* A run() that goes on to the transfer whatever the package step returned.
IssuedAnyway(pkg, ops, stop) == SubSeq(ops, 1, stop)

\* The remote operations run() issues: none unless the package step returned a
\* path, else those before the one that raises (all of them when stop is
\* Len(ops)).
Issued(pkg, ops, stop) == IF pkg = "path" THEN SubSeq(ops, 1, stop) ELSE <<>>

\* run(): "true", "false" or "raise" (an exception leaves run); p is what
\* create_deployment_package did, connect the outcome of connect(), ops the
\* remote operations of transfer_package and test_deployment, stop the number
\* of them that return before one raises, smokeOk whether test_deployment
\* returns True.
Run(p, fb, uvc, pyc, pkgs, connect, ops, stop, smokeOk) ==
    IF ~Connect(connect).result
    THEN [outcome |-> "false", connected |-> FALSE, pkg |-> "none",
          session |-> Connect(connect).session, ops |-> <<>>,
          fb |-> fb, uvCache |-> uvc, pyCache |-> pyc, uv |-> NoUv,
          res |-> NoRes, cp |-> NoCp,
          zip |-> [packages |-> pkgs, zip |-> "none", script |-> NoneV,
                   name |-> <<>>, staging |-> "none"]]
    ELSE [outcome |-> IF p.result = "raise" THEN "raise"
                      ELSE IF p.result = "none" THEN "false"
                      ELSE IF stop < Len(ops) THEN "raise"
                      ELSE IF smokeOk THEN "true" ELSE "false",
          connected |-> TRUE, pkg |-> p.result,
          session |-> CloseSession(Connect(connect).session),
          ops |-> Issued(p.result, ops, stop),
          fb |-> p.fb, uvCache |-> p.uvCache, pyCache |-> p.pyCache,
          uv |-> p.uv, res |-> p.res, cp |-> p.cp, zip |-> p.zip]

(***************************************************************************)
(* Configuration and the deploy command                                    *)
(***************************************************************************)
\* configs/servers.yaml: the configured servers, their os field and their
\* cleanup_package field ("absent" when the profile has none), and their
\* deploy_path, a string given as the list of its separators and names:
\* C:/apps, /opt/apps, C:\apps and \srv\apps.
Servers ==
    [win |-> [os |-> "windows", cleanup_package |-> "true",
              deploy_path |-> <<"C:", "/", "apps">>],
     lin |-> [os |-> "linux", cleanup_package |-> "absent",
              deploy_path |-> <<"/", "opt", "/", "apps">>],
     bare |-> [os |-> "absent", cleanup_package |-> "false",
               deploy_path |-> <<"C:", "\\", "apps">>],
     keep |-> [os |-> "Linux", cleanup_package |-> "false",
               deploy_path |-> <<"\\", "srv", "\\", "apps">>]]

\* str.replace(old, new) on a path.
Replace(path, old, new) ==
    [i \in DOMAIN path |-> IF path[i] = old THEN new ELSE path[i]]

\* final_dir of transfer_package: the separators of deploy_path are adapted to
\* the OS; "project" stands for the project's name.
TransferFinalDir(target_os, deploy_path) ==
    IF target_os = "windows"
    THEN Replace(deploy_path, "/", "\\") \o <<"\\", "project">>
    ELSE Replace(deploy_path, "\\", "/") \o <<"/", "project">>

\* final_dir of test_deployment: deploy_path as configured.
TestFinalDir(target_os, deploy_path) ==
    IF target_os = "windows"
    THEN deploy_path \o <<"\\", "project">>
    ELSE deploy_path \o <<"/", "project">>

\* The names a group or the --server option may give; "ghost" is configured
\* nowhere.
TargetNames == {"win", "lin", "ghost"}

\* str.lower() on the os names of the configuration.
Lower(name) ==
    IF name = "Linux" THEN "linux"
    ELSE IF name = "Windows" THEN "windows" ELSE name

\* A configuration whose default os is linux.
TargetOsDefaultLinux(srv) ==
    Lower(IF Servers[srv].os = "absent" THEN "linux" ELSE Servers[srv].os)

\* self.server_config.get('os', 'windows').lower()
TargetOs(srv) ==
    Lower(IF Servers[srv].os = "absent" THEN "windows" ELSE Servers[srv].os)

\* self.server_config.get('cleanup_package', True)
CleanupPackage(srv) == Servers[srv].cleanup_package # "false"

\* The names of the configured servers.
ProfileNames == DOMAIN Servers

\* The contents .python-version may have: "3.9", "3.13", "3.13.0", "3.14", and
\* the malformed "3" and "".
Requests ==
    {<<3, 9>>, <<3, 13>>, <<3, 13, 0>>, <<3, 14>>, <<3>>, <<>>}

\* What .python-version may be: one of the contents above, or missing.
VersionFiles == Requests \cup {NoneV}

\* get_python_version: the file's content, else the default.
GetPythonVersion(file) == IF file = NoneV THEN <<3, 12>> ELSE file

\* The succeeded list after one target.
SucceededAfter(s, srv, outcome) ==
    IF outcome = "true" THEN Append(s, srv) ELSE s

\* A loop whose except clause does not record the target.
FailedAfterDropsRaise(f, srv, outcome) ==
    IF outcome = "false" THEN Append(f, srv) ELSE f

\* The failed list after one target.
FailedAfter(f, srv, outcome) ==
    IF outcome = "true" THEN f ELSE Append(f, srv)

\* What the constructor does with a server name: "ok" or "exit" (sys.exit).
LoadServerConfig(srv) == IF srv \in DOMAIN Servers THEN "ok" ELSE "exit"

\* The keys of the runtime cache: cache/python-<key>-linux.
PyCacheKeys == DOMAIN LinuxCatalog
UvCachePaths == {UvCachePath("windows"), UvCachePath("linux")}

RECURSIVE SeqsUpTo(_, _)
\* The lists of server names a group of the configuration may hold.
SeqsUpTo(S, n) ==
    IF n = 0 THEN {<<>>}
    ELSE SeqsUpTo(S, n - 1)
         \cup {Append(q, e) : q \in {t \in SeqsUpTo(S, n - 1) : Len(t) = n - 1},
                              e \in S}

\* The project names, the manifests (pyproject.toml) and the dates explored.
ProjectNames == {<<100, 101, 109, 111>>, <<97>>}
Manifests ==
    { [exists |-> FALSE, hasProject |-> FALSE, version |-> NoneV],
      [exists |-> TRUE, hasProject |-> FALSE, version |-> NoneV],
      [exists |-> TRUE, hasProject |-> TRUE, version |-> NoneV],
      [exists |-> TRUE, hasProject |-> TRUE, version |-> <<2, 1, 0>>],
      [exists |-> TRUE, hasProject |-> TRUE, version |-> <<0, 10>>] }
Dates == {<<2024, 5, 1>>, <<2024, 12, 31>>, <<2025, 10, 9>>}

VARIABLES
    pc,                 \* "idle", "loop", "done" or "exited": the deploy command
    servers_to_deploy,  \* the target list of the running command
    idx,                \* the position of the for loop
    succeeded, failed,  \* the two result lists
    attempted,          \* the targets whose loop body was entered
    outcomes,           \* what run() did for each attempted target
    sessions,           \* the SSH session of each attempted target
    exit_code,          \* the exit status of the process, "none" while it runs
    python_version_file,\* the project's .python-version
    tree,               \* the uv install tree of the operator's machine
    project_name,       \* the --project option
    manifest,           \* the project's pyproject.toml
    today,              \* the date
    fallback,           \* the FallbackRecord file of the project
    uvCache, pyCache,   \* the artifact cache
    packages,           \* the names of the archives in the packages directory
    uvCall, res, cp,    \* the last target's download_uv, resolver and copy_python
    runObs,             \* the last target's run()
    local_file,         \* the archive being transferred, a list of bytes
    file_pos,           \* the read position in it
    remote_file,        \* what has been written to the remote file
    writes,             \* len(data) of each remote_file.write(data)
    advanced,           \* the sum of the progress updates
    loop                \* "idle", "reading" (the transfer loop) or "closed"

vars ==
    <<pc, servers_to_deploy, idx, succeeded, failed, attempted, outcomes,
      sessions, exit_code, python_version_file, tree, project_name, manifest,
      today, fallback, uvCache, pyCache, packages, uvCall, res, cp, runObs,
      local_file, file_pos, remote_file, writes, advanced, loop>>

loopVars ==
    <<pc, servers_to_deploy, idx, succeeded, failed, attempted, outcomes,
      sessions, exit_code>>
projectVars == <<project_name, manifest, today>>
fileVars == <<fallback, uvCache, pyCache, packages>>
obsVars == <<uvCall, res, cp, runObs>>
xferVars == <<local_file, file_pos, remote_file, writes, advanced, loop>>

NoRun == [os |-> "none", ctor |-> "none", outcome |-> "none",
          connected |-> FALSE, pkg |-> "none", fbBefore |-> NoFile,
          ops |-> <<>>, zip |-> "none", script |-> NoneV, name |-> <<>>,
          staging |-> "none", request |-> NoneV, raised |-> FALSE,
          statuses |-> <<>>, smoke |-> NoSmoke, final_dir |-> <<>>,
          test_dir |-> <<>>]

\* datetime.now() as the resolver reads it: later than the time any record on
\* disk was written at; times are counted modulo ClockPeriod.
Now(fb) == IF fb.exists THEN (fb.ts + 1) % ClockPeriod ELSE 0

\* No command is running.
InitCommand ==
    /\ pc = "idle"
    /\ servers_to_deploy = <<>>
    /\ idx = 1
    /\ succeeded = <<>>
    /\ failed = <<>>
    /\ attempted = <<>>
    /\ outcomes = <<>>
    /\ sessions = <<>>
    /\ exit_code = "none"
    /\ uvCall = NoUv
    /\ res = NoRes
    /\ cp = NoCp
    /\ runObs = NoRun

\* No transfer loop is looked into.
NoTransfer ==
    /\ local_file = <<>>
    /\ file_pos = 0
    /\ remote_file = <<>>
    /\ writes = <<>>
    /\ advanced = 0
    /\ loop = "idle"

\* The project "demo" at version 2.1.0 on 2024-05-01.
InitProject ==
    /\ project_name = <<100, 101, 109, 111>>
    /\ manifest = [exists |-> TRUE, hasProject |-> TRUE, version |-> <<2, 1, 0>>]
    /\ today = <<2024, 5, 1>>

\* A machine that has deployed to both kinds of target before (the tool binary
\* of each is cached), with no runtime cached, no FallbackRecord and no archive.
Init ==
    /\ InitCommand
    /\ NoTransfer
    /\ InitProject
    /\ python_version_file \in VersionFiles
    /\ tree \in SUBSET FolderUniverse
    /\ fallback = NoFile
    /\ uvCache = [p \in UvCachePaths |-> "complete"]
    /\ pyCache = [k \in PyCacheKeys |-> "absent"]
    /\ packages = {}

\* The operator edits .python-version between two commands.
SetPythonVersion(v) ==
    /\ pc = "idle"
    /\ v # python_version_file
    /\ python_version_file' = v
    /\ UNCHANGED <<loopVars, tree, projectVars, fileVars, obsVars,
                   xferVars>>

\* uv installs a runtime on the operator's machine between two commands.
InstallRuntime(f) ==
    /\ pc = "idle"
    /\ f \notin tree
    /\ tree' = tree \cup {f}
    /\ UNCHANGED <<loopVars, python_version_file, projectVars, fileVars,
                   obsVars, xferVars>>

\* uv removes a runtime from the operator's machine between two commands.
UninstallRuntime(f) ==
    /\ pc = "idle"
    /\ f \in tree
    /\ tree' = tree \ {f}
    /\ UNCHANGED <<loopVars, python_version_file, projectVars, fileVars,
                   obsVars, xferVars>>

\* deploy(): the target list is fixed and the loop starts.
StartDeploy(targets) ==
    /\ pc = "idle"
    /\ pc' = "loop"
    /\ servers_to_deploy' = targets
    /\ UNCHANGED <<idx, succeeded, failed, attempted, outcomes, sessions,
                   exit_code, python_version_file, tree, projectVars, fileVars,
                   obsVars, xferVars>>

\* deploy --server <name>: servers_to_deploy = [server].
StartServer(srv) == StartDeploy(<<srv>>)

\* deploy --group <name>: servers_to_deploy = groups[group].
StartGroup(targets) == StartDeploy(targets)

\* The values an input of the run may take: all of them when the run reads the
\* input, one fixed value when it does not.
InputValues(read, values, unread) == IF read THEN values ELSE {unread}

\* The numbers of remote operations that may return before one raises, when
\* the operations of faults are the ones that may raise; Len(ops) when none
\* raises.
Stops(ops, faults) ==
    {k \in 0..(Len(ops) - 1) : ops[k + 1] \in faults} \cup {Len(ops)}

\* One pass of the for loop: OrbitDeployer(project, srv, password).run() and the
\* bookkeeping around it.  The inputs are what the world does: the outcome of
\* connect(), the catalog the scan builds, the outcomes of the downloads, the
\* folder glob lists first, whether copytree and the compression succeed, the
\* remote operation that raises, the exit statuses of the remote commands and
\* what the smoke test's program writes.  faults names the failures explored
\* besides those: remote operations that raise, "nosftp" (open_sftp raises),
\* "zip" (the compression raises) and "status" (commands that end with a
\* status other than 0).
DeployTarget(faults) ==
    /\ pc = "loop"
    /\ idx <= Len(servers_to_deploy)
    /\ LET srv == servers_to_deploy[idx]
       IN  IF LoadServerConfig(srv) = "exit"
           THEN /\ pc' = "exited"
                /\ exit_code' = 1
                /\ attempted' = Append(attempted, srv)
                /\ sessions' = Append(sessions, "none")
                /\ runObs' = [NoRun EXCEPT !.ctor = "exit",
                                           !.fbBefore = fallback]
                /\ uvCall' = NoUv
                /\ res' = NoRes
                /\ cp' = NoCp
                /\ UNCHANGED <<servers_to_deploy, idx, succeeded, failed,
                               outcomes, python_version_file, tree,
                               projectVars, fileVars, xferVars>>
           ELSE \E os \in {TargetOs(srv)} :
                \E python_version \in {GetPythonVersion(python_version_file)} :
                \E pv \in {EffectiveRequest(fallback, python_version)} :
                \E connect \in {"ok", "refused"}
                                \cup ({"nosftp"} \cap faults) :
                \E connectOk \in {Connect(connect).result} :
                \E cat \in InputValues(connectOk, Catalogs(os, tree),
                              CHOOSE k \in Catalogs(os, tree) : TRUE) :
                \E fr \in {FindBest(pv, cat, fallback, Now(fallback))} :
                \E uvNet \in InputValues(
                       connectOk /\ UvMustDownload(uvCache[UvCachePath(os)]),
                       {"ok", "error", "nofile"}, "ok") :
                \E u \in {DownloadUv(os, uvCache, uvNet)} :
                \E reached \in {connectOk /\ u.result = "true"} :
                \E pyNet \in InputValues(
                       reached /\ os = "linux" /\ fr.best \in DOMAIN pyCache
                           /\ PyMustDownload(pyCache[fr.best]),
                       {"ok", "error", "partial"}, "ok") :
                \E pick \in InputValues(
                       reached /\ os = "windows"
                           /\ GlobFound(tree, fr.best) # {},
                       GlobFound(tree, fr.best),
                       CHOOSE f \in FolderUniverse : TRUE) :
                \E c0 \in {CopyPython(fr, pv, os, tree, fallback, pyCache,
                                      pyNet, TRUE, pick)} :
                \E copyOk \in InputValues(reached /\ c0.result = "true",
                                          BOOLEAN, TRUE) :
                \E c \in {CopyPython(fr, pv, os, tree, fallback, pyCache,
                                     pyNet, copyOk, pick)} :
                \E zipOk \in InputValues(
                       reached /\ c.result = "true" /\ "zip" \in faults,
                       BOOLEAN, TRUE) :
                \E name \in {PackageName(project_name,
                                         GetProjectVersion(manifest),
                                         DateStr(today))} :
                \E p \in {CreatePackage(u, c, os, fallback, pyCache,
                                        python_version, packages, name,
                                        zipOk)} :
                \E ops \in {RemoteOps(os, CleanupPackage(srv))} :
                \E stop \in InputValues(connectOk /\ p.result = "path",
                                        Stops(ops, faults), Len(ops)) :
                \E statuses \in InputValues(
                       connectOk /\ p.result = "path" /\ "status" \in faults,
                       StatusInputs(ops), AllZero(ops)) :
                \E issued \in {StopAt(ops, stop, statuses)} :
                \E tested \in {connectOk /\ p.result = "path"
                                  /\ issued = Len(ops)} :
                \E smoke \in InputValues(tested, SmokeResults,
                                         CHOOSE x \in SmokeResults : TRUE) :
                \E smokeOk \in {TestDeployment(smoke.output, smoke.error)} :
                \E r \in {Run(p, fallback, uvCache, pyCache, packages, connect,
                              ops, issued, smokeOk)} :
                    /\ pc' = "loop"
                    /\ idx' = idx + 1
                    /\ attempted' = Append(attempted, srv)
                    /\ outcomes' = Append(outcomes, r.outcome)
                    /\ sessions' = Append(sessions, r.session)
                    /\ succeeded' = SucceededAfter(succeeded, srv, r.outcome)
                    /\ failed' = FailedAfter(failed, srv, r.outcome)
                    /\ fallback' = r.fb
                    /\ uvCache' = r.uvCache
                    /\ pyCache' = r.pyCache
                    /\ packages' = r.zip.packages
                    /\ uvCall' = r.uv
                    /\ res' = r.res
                    /\ cp' = r.cp
                    /\ runObs' = [os |-> os, ctor |-> "ok",
                                  outcome |-> r.outcome,
                                  connected |-> r.connected, pkg |-> r.pkg,
                                  fbBefore |-> fallback, ops |-> r.ops,
                                  zip |-> r.zip.zip, script |-> r.zip.script,
                                  name |-> r.zip.name,
                                  staging |-> r.zip.staging,
                                  request |-> python_version,
                                  raised |-> stop < Len(ops),
                                  statuses |->
                                      IF r.pkg = "path" THEN statuses
                                      ELSE <<>>,
                                  smoke |-> IF tested THEN smoke
                                            ELSE NoSmoke,
                                  final_dir |->
                                      IF r.pkg = "path"
                                      THEN TransferFinalDir(os,
                                               Servers[srv].deploy_path)
                                      ELSE <<>>,
                                  test_dir |->
                                      IF tested
                                      THEN TestFinalDir(os,
                                               Servers[srv].deploy_path)
                                      ELSE <<>>]
                    /\ UNCHANGED <<servers_to_deploy, exit_code,
                                   python_version_file, tree, projectVars,
                                   xferVars>>

\* The remote operations whose failure is explored everywhere: the write of
\* the archive.
WriteFault == {"sftp write"}

\* Every remote operation of either OS, open_sftp and the compression.
AllFaults ==
    {"nosftp", "zip"} \cup
    UNION {{ops[i] : i \in DOMAIN ops} :
             ops \in {RemoteOps(o, k) : o \in {"windows", "linux"},
                                         k \in BOOLEAN}}

\* The loop is over: the summary is printed and deploy() returns.
FinishDeploy ==
    /\ pc = "loop"
    /\ idx > Len(servers_to_deploy)
    /\ pc' = "done"
    /\ exit_code' = 0
    /\ UNCHANGED <<servers_to_deploy, idx, succeeded, failed, attempted,
                   outcomes, sessions, python_version_file, tree, projectVars,
                   fileVars, obsVars, xferVars>>

\* The process ends (deploy() returned, or sys.exit was called); nothing of it
\* but the files is left.
ProcessEnd ==
    /\ pc \in {"done", "exited"}
    /\ pc' = "idle"
    /\ servers_to_deploy' = <<>>
    /\ idx' = 1
    /\ succeeded' = <<>>
    /\ failed' = <<>>
    /\ attempted' = <<>>
    /\ outcomes' = <<>>
    /\ sessions' = <<>>
    /\ exit_code' = "none"
    /\ uvCall' = NoUv
    /\ res' = NoRes
    /\ cp' = NoCp
    /\ runObs' = NoRun
    /\ UNCHANGED <<python_version_file, tree, projectVars, fileVars,
                   xferVars>>

\* Commands given one server, on a machine whose install tree and project
\* change between commands.
Next ==
    \/ \E v \in VersionFiles : SetPythonVersion(v)
    \/ \E f \in FolderUniverse : InstallRuntime(f)
    \/ \E f \in FolderUniverse : UninstallRuntime(f)
    \/ \E srv \in TargetNames : StartServer(srv)
    \/ DeployTarget(WriteFault)
    \/ FinishDeploy
    \/ ProcessEnd

Spec == Init /\ [][Next]_vars

\* A fresh checkout (nothing cached) on a machine that does not change.
InitGroup ==
    /\ InitCommand
    /\ NoTransfer
    /\ InitProject
    /\ python_version_file \in {<<3, 13>>, <<3, 14>>}
    /\ tree = FolderUniverse
    /\ fallback = NoFile
    /\ uvCache = [p \in UvCachePaths |-> "absent"]
    /\ pyCache = [k \in PyCacheKeys |-> "absent"]
    /\ packages = {}

\* Commands given a group of servers.
NextGroup ==
    \/ \E targets \in SeqsUpTo(TargetNames, MaxTargets) : StartGroup(targets)
    \/ DeployTarget(WriteFault)
    \/ FinishDeploy
    \/ ProcessEnd

SpecGroup == InitGroup /\ [][NextGroup]_vars

\* Any project, manifest and date, on a machine with the tool binaries cached.
InitProvision ==
    /\ InitCommand
    /\ NoTransfer
    /\ project_name \in ProjectNames
    /\ manifest \in Manifests
    /\ today \in Dates
    /\ python_version_file \in {<<3, 10>>, <<3, 13, 0>>}
    /\ tree = FolderUniverse
    /\ fallback = NoFile
    /\ uvCache = [p \in UvCachePaths |-> "complete"]
    /\ pyCache = [k \in PyCacheKeys |-> "absent"]
    /\ packages = {}

\* Commands given one configured server, any remote operation failing.
NextProvision ==
    \/ \E srv \in ProfileNames : StartServer(srv)
    \/ DeployTarget(AllFaults)
    \/ FinishDeploy
    \/ ProcessEnd

SpecProvision == InitProvision /\ [][NextProvision]_vars

\* The remote commands may end with any exit status and no operation raises.
StatusFault == {"status"}

\* The project "demo" on a machine with the tool binaries cached.
InitStatus ==
    /\ InitCommand
    /\ NoTransfer
    /\ InitProject
    /\ python_version_file = <<3, 13>>
    /\ tree = FolderUniverse
    /\ fallback = NoFile
    /\ uvCache = [p \in UvCachePaths |-> "complete"]
    /\ pyCache = [k \in PyCacheKeys |-> "absent"]
    /\ packages = {}

\* Commands given one configured server, the remote commands ending with any
\* exit status.
NextStatus ==
    \/ \E srv \in ProfileNames : StartServer(srv)
    \/ DeployTarget(StatusFault)
    \/ FinishDeploy
    \/ ProcessEnd

SpecStatus == InitStatus /\ [][NextStatus]_vars

\* The contents .python-version takes in the commands that are run again.
RerunRequests == {<<3, 9>>, <<3, 13>>, <<3, 14>>}

\* The same command given twice in a row to one configured server.
RerunTargets == {<<"win", "win">>, <<"lin", "lin">>}

\* A fresh checkout with the tool binaries cached, no runtime cached and no
\* FallbackRecord.
InitRerun ==
    /\ InitCommand
    /\ NoTransfer
    /\ InitProject
    /\ python_version_file \in RerunRequests
    /\ tree = FolderUniverse
    /\ fallback = NoFile
    /\ uvCache = [p \in UvCachePaths |-> "complete"]
    /\ pyCache = [k \in PyCacheKeys |-> "absent"]
    /\ packages = {}

\* Deployments run twice in a row; the project's request changes between
\* commands only.
NextRerun ==
    \/ \E v \in RerunRequests : SetPythonVersion(v)
    \/ \E targets \in RerunTargets : StartGroup(targets)
    \/ DeployTarget(WriteFault)
    \/ FinishDeploy
    \/ ProcessEnd

SpecRerun == InitRerun /\ [][NextRerun]_vars

(***************************************************************************)
(* The transfer loop of transfer_package                                   *)
(***************************************************************************)
\* The size of a chunk (32768 in the source, scaled down) and the greatest
\* archive size explored.
ChunkSize == 3
MaxArchive == 7

\* The byte values of the archives explored.
Bytes == {0, 1}

\* The archives explored: every content of every size up to MaxArchive.
Archives == UNION {[1..n -> Bytes] : n \in 0..MaxArchive}

\* A read that returns one byte more than it was asked for.
ReadOneMore(file, pos, n) ==
    SubSeq(file, pos + 1, IF pos + n + 1 < Len(file) THEN pos + n + 1
                          ELSE Len(file))

\* local_file.read(n) at position pos: the next n bytes, fewer at the end of
\* the file, none after it.
Read(file, pos, n) ==
    SubSeq(file, pos + 1, IF pos + n < Len(file) THEN pos + n ELSE Len(file))

\* The local archive and the remote file have been opened.
InitTransfer ==
    /\ InitCommand
    /\ InitProject
    /\ python_version_file = <<3, 13>>
    /\ tree = FolderUniverse
    /\ fallback = NoFile
    /\ uvCache = [p \in UvCachePaths |-> "complete"]
    /\ pyCache = [k \in PyCacheKeys |-> "absent"]
    /\ packages = {}
    /\ local_file \in Archives
    /\ file_pos = 0
    /\ remote_file = <<>>
    /\ writes = <<>>
    /\ advanced = 0
    /\ loop = "reading"

\* One pass of the while loop with data: the chunk is written and the progress
\* advanced by its length.
WriteChunk ==
    /\ loop = "reading"
    /\ LET data == Read(local_file, file_pos, ChunkSize)
       IN  /\ data # <<>>
           /\ file_pos' = file_pos + Len(data)
           /\ remote_file' = remote_file \o data
           /\ writes' = Append(writes, Len(data))
           /\ advanced' = advanced + Len(data)
    /\ UNCHANGED <<local_file, loop, loopVars, python_version_file, tree,
                   projectVars, fileVars, obsVars>>

\* The pass that reads no data: break, and both files are closed.
EndOfFile ==
    /\ loop = "reading"
    /\ Read(local_file, file_pos, ChunkSize) = <<>>
    /\ loop' = "closed"
    /\ UNCHANGED <<local_file, file_pos, remote_file, writes, advanced,
                   loopVars, python_version_file, tree, projectVars, fileVars,
                   obsVars>>

NextTransfer == WriteChunk \/ EndOfFile

\* The loop keeps running until it breaks.
SpecTransfer == InitTransfer /\ [][NextTransfer]_vars /\ WF_vars(NextTransfer)

(***************************************************************************)
(* Properties                                                              *)
(***************************************************************************)
\* The keys of the catalog the resolver of a run for target_os builds.
CatalogKeys(target_os) == UNION {DOMAIN k : k \in Catalogs(target_os, tree)}

\* The infos a catalog of a run for target_os may hold for key.
CatalogInfos(target_os, key) ==
    {k[key] : k \in {c \in Catalogs(target_os, tree) : key \in DOMAIN c}}

\* (major, minor) of a is below that of b, numerically.
NumLower(a, b) == a[1] < b[1] \/ (a[1] = b[1] /\ a[2] < b[2])

\* The catalog entries strictly below the request.
LowerKeys(target_os, req) == {k \in CatalogKeys(target_os) : NumLower(k, req)}

\* The last target called the resolver with a well-formed request.
Resolved == res.called /\ Matches(res.req)

\* The cases of the resolver.
ExactCase == Resolved /\ Short(res.req) \in CatalogKeys(res.os)
FallbackCase ==
    /\ Resolved
    /\ Short(res.req) \notin CatalogKeys(res.os)
    /\ LowerKeys(res.os, res.req) # {}
UnresolvedCase ==
    /\ Resolved
    /\ Short(res.req) \notin CatalogKeys(res.os)
    /\ LowerKeys(res.os, res.req) = {}
MalformedCase == res.called /\ ~Matches(res.req)

\* C1: a request absent from the catalog with an entry strictly below it
\* resolves to the numerically greatest entry strictly below it, and a
\* FallbackRecord (original request, returned version) is written.
C1_FallbackIsGreatestLower ==
    FallbackCase =>
        /\ res.best \in LowerKeys(res.os, res.req)
        /\ \A k \in LowerKeys(res.os, res.req) : ~NumLower(res.best, k)
        /\ res.fbAfter.exists
        /\ res.fbAfter.original = res.req
        /\ res.fbAfter.used = res.best

\* C2: a request whose major.minor is a key of the catalog resolves to that
\* major.minor with its catalog info, and the resolver leaves the
\* FallbackRecord file as it found it.
C2_ExactMatch ==
    ExactCase =>
        /\ res.best = Short(res.req)
        /\ res.info \in CatalogInfos(res.os, Short(res.req))
        /\ res.fbAfter = cp.fbBefore

\* An exact match found while a FallbackRecord was on disk.
C2_Witness == ExactCase /\ cp.fbBefore.exists /\ res.best = Short(res.req)

\* C3: with no catalog entry at or below the request the resolver returns
\* (None, None), no package is assembled, and the FallbackRecord file is after
\* the run what it was before it.
C3_Unresolved ==
    UnresolvedCase =>
        /\ res.best = NoneV
        /\ res.info = InfoNone
        /\ cp.result = "false"
        /\ cp.bundled = NoneV
        /\ runObs.pkg = "none"
        /\ res.fbAfter = cp.fbBefore
        /\ fallback = runObs.fbBefore

\* An unresolved request while a FallbackRecord was on disk.
C3_Witness == UnresolvedCase /\ runObs.fbBefore.exists /\ cp.result = "false"

\* C4: when a FallbackRecord exists and the catalog holds the major.minor of its
\* original request (given with or without a patch component), a successful
\* assembly bundles that major.minor and the record file is gone afterwards.
C4_RecordCleared ==
    /\ cp.called
    /\ cp.fbBefore.exists
    /\ Short(cp.fbBefore.original) \in CatalogKeys(cp.os)
    /\ runObs.pkg = "path"
    => /\ cp.bundled = Short(cp.fbBefore.original)
       /\ ~fallback.exists

\* C5: a version the resolver returns for a well-formed request is never above
\* the request in numeric (major, minor) order.
C5_NeverAbove ==
    Resolved /\ res.best # NoneV => ~NumLower(res.req, res.best)

\* The resolver returned an entry other than the requested one.
C5_Witness == FallbackCase /\ res.best # NoneV /\ res.best # Short(res.req)

\* C6: for a request that does not parse the resolver returns nothing usable,
\* assembly fails and no runtime is bundled.
C6_MalformedUnresolved ==
    MalformedCase =>
        /\ Falsy(res.best)
        /\ cp.result = "false"
        /\ cp.bundled = NoneV

\* C7: the FallbackRecord file disappears only in a run that resolved the
\* record's original request to that very version, obtained the runtime and
\* completed the copy.
C7_DeleteOnlyOnExact ==
    [][fallback.exists /\ ~fallback'.exists =>
          /\ cp'.called
          /\ res'.req = fallback.original
          /\ res'.best = res'.req
          /\ cp'.ensure = "ok"
          /\ cp'.result = "true"
          /\ cp'.bundled = res'.best]_vars

\* A run that deleted the record.
C7_Witness == cp.called /\ cp.deleted /\ cp.fbBefore.exists /\ ~fallback.exists

\* A step that deploys to the next target of the list; two targets in sequence
\* ensure the same tool binary, the same runtime.
NextTarget == Len(attempted') = Len(attempted) + 1
SameUvKey ==
    NextTarget /\ uvCall.called /\ uvCall'.called /\ uvCall'.os = uvCall.os
SamePyKey ==
    /\ NextTarget
    /\ cp.called /\ cp.os = "linux" /\ cp.ensure # "none"
    /\ cp'.called /\ cp'.os = "linux" /\ cp'.ensure # "none"
    /\ cp'.key = cp.key

\* The second of two ensure calls went to the first one's path, downloaded
\* nothing and left the cache entry alone.
SecondUvFromCache ==
    /\ uvCall'.path = uvCall.path
    /\ ~uvCall'.downloaded
    /\ uvCache'[uvCall.path] = uvCache[uvCall.path]
SecondPyFromCache ==
    /\ ~cp'.downloaded
    /\ pyCache'[cp.key] = pyCache[cp.key]

\* C8 as stated: of two ensure calls in sequence for one cache key only the
\* first downloads; the second does no network I/O and uses the same cache
\* path, its content unchanged.
C8_SecondNeverDownloads ==
    [][/\ SameUvKey => SecondUvFromCache
       /\ SamePyKey => SecondPyFromCache]_vars

\* C8 amended: of two ensure calls in sequence for one cache key, when the
\* first returned its path the second downloads nothing and uses the same cache
\* path, its content unchanged.
C8_SecondAfterSuccess ==
    [][/\ SameUvKey /\ uvCall.result = "true" => SecondUvFromCache
       /\ SamePyKey /\ cp.ensure = "ok" => SecondPyFromCache]_vars

\* The second of two Linux targets found both artifacts cached by the first.
C8_Witness ==
    /\ Len(attempted) = 2
    /\ attempted[1] = attempted[2]
    /\ outcomes[1] = "true"
    /\ uvCall.called /\ ~uvCall.downloaded
    /\ cp.called /\ cp.os = "linux" /\ cp.ensure = "ok" /\ ~cp.downloaded

\* C9: whatever happens to a target, an unknown server name included, every
\* target of the list is attempted, in list order.
C9_AllAttempted ==
    pc \in {"done", "exited"} => attempted = servers_to_deploy

RECURSIVE TargetsWith(_, _, _)
\* The targets whose run() returned true (ok) or did not (~ok), in list order.
TargetsWith(names, outs, ok) ==
    IF names = <<>> THEN <<>>
    ELSE (IF (outs[1] = "true") = ok THEN <<names[1]>> ELSE <<>>)
         \o TargetsWith(Tail(names), Tail(outs), ok)

\* The elements of a list; a list without a repeated name.
Elems(q) == {q[i] : i \in DOMAIN q}
NoRepeat(q) == \A i, j \in DOMAIN q : q[i] = q[j] => i = j

\* C10: when the loop is over, succeeded holds the targets whose run() returned
\* true and failed all the others, the ones whose run raised included; a list
\* of distinct targets is partitioned by the two.
C10_Partition ==
    pc = "done" =>
        /\ Len(outcomes) = Len(servers_to_deploy)
        /\ succeeded = TargetsWith(servers_to_deploy, outcomes, TRUE)
        /\ failed = TargetsWith(servers_to_deploy, outcomes, FALSE)
        /\ NoRepeat(servers_to_deploy) =>
              /\ Elems(succeeded) \cap Elems(failed) = {}
              /\ Elems(succeeded) \cup Elems(failed) = Elems(servers_to_deploy)

\* A finished loop with one target that succeeded and one whose run raised.
C10_Witness ==
    /\ pc = "done"
    /\ \E i, j \in DOMAIN outcomes :
          /\ outcomes[i] = "raise" /\ servers_to_deploy[i] \in Elems(failed)
          /\ outcomes[j] = "true" /\ servers_to_deploy[j] \in Elems(succeeded)
\* The server the last step deployed to, and the one the next step deploys to.
LastTarget == attempted[Len(attempted)]
ThisTarget == servers_to_deploy[idx]

\* C11: a run goes through connect, package, transfer, install and test in
\* that order and stops at the first step that fails: a failed connection
\* leaves the cache, the archives and the FallbackRecord alone, a failed package
\* step issues no remote operation, the remote operations issued are an initial
\* part of the ordered list, and a run that did not issue them all has not
\* succeeded.
C11_StepOrder ==
    [][NextTarget /\ runObs'.ctor = "ok" =>
          /\ uvCall'.called => runObs'.connected
          /\ ~runObs'.connected =>
                /\ UNCHANGED <<fallback, uvCache, pyCache, packages>>
                /\ ~uvCall'.called /\ ~cp'.called
                /\ runObs'.outcome = "false"
          /\ runObs'.pkg # "path" =>
                runObs'.ops = <<>> /\ runObs'.outcome # "true"
          /\ IsPrefix(runObs'.ops,
                      RemoteOps(runObs'.os, CleanupPackage(ThisTarget)))
          /\ runObs'.ops # RemoteOps(runObs'.os, CleanupPackage(ThisTarget))
                => runObs'.outcome # "true"]_vars

\* A package step that failed at the runtime download, after the connection:
\* no remote operation was issued.
C11_Witness ==
    /\ runObs.connected /\ runObs.pkg = "none" /\ runObs.ops = <<>>
    /\ runObs.outcome = "false"
    /\ cp.called /\ cp.ensure = "fail" /\ cp.downloaded

\* C12: whatever way run() is left, every SSH session opened for the target
\* has been closed.
C12_SessionsClosed == \A i \in DOMAIN sessions : sessions[i] # "open"

\* C13: when the command is aborted by a configuration error, no SSH
\* connection was opened for any target of the command.
C13_NoContactBeforeConfigError ==
    pc = "exited" => \A i \in DOMAIN sessions : sessions[i] = "none"

\* C14: the runtime directory the setup script names is the runtime directory
\* bundled with it, python-{resolved version}.
C14_ScriptNamesBundled == runObs.zip # "none" => runObs.script = cp.bundled

\* C15: an archive present in the packages directory is not written again.
C15_ArchiveNotOverwritten == runObs.zip # "overwritten"

\* C16: however create_deployment_package is left, its staging directory is
\* gone.
C16_StagingRemoved ==
    /\ runObs.staging # "exists"
    /\ uvCall.called => runObs.staging = "removed"

\* The package step left by an exception during compression.
C16_Witness ==
    /\ uvCall.called /\ runObs.staging = "removed"
    /\ runObs.pkg = "raise" /\ runObs.zip # "none"

\* The commands that contain chmod.
ContainsChmod(cmd) ==
    cmd \in Elems(ChmodCommands) \cup {"chmod +x setup.sh && ./setup.sh"}

\* C17: for a target whose profile says windows or has no os field, no remote
\* command that contains chmod is issued, the setup invocation included.
C17_NoChmodOnWindows ==
    /\ attempted # <<>>
    /\ LastTarget \in ProfileNames
    /\ Servers[LastTarget].os \in {"absent", "windows", "Windows"}
    => \A i \in DOMAIN runObs.ops : ~ContainsChmod(runObs.ops[i])

\* A complete run for the profile without os field.
C17_Witness ==
    /\ attempted = <<"bare">>
    /\ runObs.outcome = "true"
    /\ runObs.ops = <<"if not exist package_dir mkdir",
                      "if not exist final_dir mkdir", "sftp write", "tar -xf",
                      "setup.bat", ".venv\\Scripts\\python.exe main.py">>

\* The characters of the version and of the date an archive name must hold.
ExpectedVersion ==
    IF manifest.exists /\ manifest.hasProject /\ manifest.version = <<2, 1, 0>>
    THEN <<50, 46, 49, 46, 48>>
    ELSE IF manifest.exists /\ manifest.hasProject
            /\ manifest.version = <<0, 10>>
    THEN <<48, 46, 49, 48>>
    ELSE <<48, 46, 49, 46, 48>>
ExpectedDate ==
    IF today = <<2024, 5, 1>> THEN <<50, 48, 50, 52, 48, 53, 48, 49>>
    ELSE IF today = <<2024, 12, 31>> THEN <<50, 48, 50, 52, 49, 50, 51, 49>>
    ELSE <<50, 48, 50, 53, 49, 48, 48, 57>>

\* C18: the archive produced is named {project}-v{version}-{YYYYMMDD}.zip, the
\* version being the manifest's project.version, 0.1.0 without it.
C18_ArchiveName ==
    runObs.zip # "none" =>
        /\ runObs.name = project_name \o <<45, 118>> \o ExpectedVersion
                         \o <<45>> \o ExpectedDate \o <<46, 122, 105, 112>>
        /\ runObs.name \in packages

\* demo-v2.1.0-20240501.zip was produced.
C18_Witness ==
    /\ runObs.pkg = "path"
    /\ runObs.name = <<100, 101, 109, 111, 45, 118, 50, 46, 49, 46, 48, 45, 50, 48, 50, 52, 48, 53, 48, 49, 46, 122, 105, 112>>

\* C19: the command ends with exit status zero exactly when no targeted
\* deployment failed.
C19_ExitStatus == pc = "done" => (exit_code = 0 <=> failed = <<>>)

\* C20: with a FallbackRecord on disk at the start of the package step, the
\* resolver is called with the record's original request.
C20_ResolvesOriginal ==
    res.called /\ cp.fbBefore.exists => res.req = cp.fbBefore.original

\* The resolver was called with a recorded original that is neither the current
\* request nor the version used last time.
C20_Witness ==
    /\ res.called /\ cp.fbBefore.exists
    /\ res.req = cp.fbBefore.original
    /\ res.req # runObs.request
    /\ res.req # cp.fbBefore.used

\* C21: whatever the project requested in earlier runs, the runtime a run
\* bundles is never above the version the project requests in that run, numeric
\* (major, minor) order.
C21_NeverAboveCurrentRequest ==
    cp.bundled # NoneV /\ Matches(runObs.request)
        => ~NumLower(runObs.request, cp.bundled)

\* What a remote operation is for.
OpKind(cmd) ==
    IF cmd \in {"if not exist package_dir mkdir", "mkdir -p package_dir"}
    THEN "create upload directory"
    ELSE IF cmd \in {"if not exist final_dir mkdir", "mkdir -p final_dir"}
    THEN "create final directory"
    ELSE IF cmd = "sftp write" THEN "write archive"
    ELSE IF cmd \in {"tar -xf", "tar -xzf || unzip -q"} THEN "extract"
    ELSE IF cmd \in Elems(ChmodCommands) THEN "permissions"
    ELSE IF cmd \in {"del", "rm -f"} THEN "delete archive"
    ELSE IF cmd \in {"setup.bat", "chmod +x setup.sh && ./setup.sh"}
    THEN "setup"
    ELSE "test"

\* The order of the provisioning steps for a profile: os is its lower-cased os
\* field ("windows" when it has none), flag its cleanup_package field.
ExpectedKinds(os, flag) ==
    <<"create upload directory", "create final directory", "write archive",
      "extract">>
    \o (IF os = "windows" THEN <<>>
        ELSE <<"permissions", "permissions", "permissions", "permissions">>)
    \o (IF flag = "false" THEN <<>> ELSE <<"delete archive">>)
    \o <<"setup">>

\* The kinds of the operations of transfer_package the last run completed.
TransferKinds ==
    LET t == SelectSeq(runObs.ops, LAMBDA c : OpKind(c) # "test")
    IN  [i \in DOMAIN t |-> OpKind(t[i])]

\* C22: the remote operations of transfer_package occur in the order upload
\* directory, final directory, archive write, extraction, permission commands
\* (linux only), deletion of the archive (unless the cleanup flag is false),
\* setup script; no extraction without a completed write before it, no deletion
\* without an extraction before it, and a transfer_package that returned went
\* through the whole list.
C22_TransferOrder ==
    attempted # <<>> /\ runObs.ctor = "ok" =>
        LET flag == Servers[LastTarget].cleanup_package
            expected == ExpectedKinds(runObs.os, flag)
        IN  /\ IsPrefix(TransferKinds, expected)
            /\ \A i \in DOMAIN TransferKinds :
                  /\ TransferKinds[i] = "extract" =>
                        \E j \in 1..(i - 1) : TransferKinds[j] = "write archive"
                  /\ TransferKinds[i] = "delete archive" =>
                        \E j \in 1..(i - 1) : TransferKinds[j] = "extract"
            /\ runObs.outcome \in {"true", "false"} /\ runObs.pkg = "path"
                  => TransferKinds = expected

\* A linux run with the cleanup flag absent went through extraction, the four
\* permission commands, the deletion and the setup script.
C22_Witness ==
    /\ attempted = <<"lin">>
    /\ runObs.outcome = "true"
    /\ Len(TransferKinds) = 10
    /\ TransferKinds[9] = "delete archive"
    /\ TransferKinds[10] = "setup"

\* The positions of the last run's operations that are permission commands.
ChmodPositions == {i \in DOMAIN runObs.ops : OpKind(runObs.ops[i]) = "permissions"}

\* C23: whatever the exit statuses of the remote commands, a transfer_package
\* in which no operation raises issues all of its commands and returns success
\* (run() goes on to the smoke test).
C23_StatusesIgnored ==
    attempted # <<>> /\ runObs.pkg = "path" /\ ~runObs.raised =>
        /\ runObs.ops = RemoteOps(runObs.os, CleanupPackage(LastTarget))
        /\ OpKind(runObs.ops[Len(runObs.ops)]) = "test"
        /\ runObs.outcome # "raise"

\* A linux run in which the directory creation, the extraction and the first
\* permission command ended with a status other than 0: the four permission
\* commands, the deletion and the setup script were issued.
C23_Witness ==
    /\ attempted = <<"lin">>
    /\ runObs.pkg = "path"
    /\ runObs.statuses[1] = 1 /\ runObs.statuses[4] = 1
    /\ runObs.statuses[5] = 1
    /\ ChmodPositions = {5, 6, 7, 8}
    /\ Len(runObs.ops) = 11
    /\ runObs.outcome = "true"

\* C24: a target is in succeeded only if the connection, the package step and
\* the provisioning succeeded and the smoke test wrote something to its
\* standard output and nothing to its error output; a smoke test that wrote no
\* output, or any error output, puts the target in failed.
C24_SmokeTestDecides ==
    attempted # <<>> /\ runObs.ctor = "ok" =>
        /\ LastTarget \in Elems(succeeded) =>
              /\ runObs.connected /\ runObs.pkg = "path"
              /\ runObs.ops = RemoteOps(runObs.os, CleanupPackage(LastTarget))
              /\ runObs.smoke.output \notin {"", "none"}
              /\ runObs.smoke.error = ""
        /\ runObs.smoke # NoSmoke
              /\ (runObs.smoke.output = "" \/ runObs.smoke.error # "")
              => LastTarget \in Elems(failed) /\ LastTarget \notin Elems(succeeded)

\* Provisioning returned success and the program wrote both output and error
\* output: the target is in failed.
C24_Witness ==
    /\ attempted = <<"win">>
    /\ runObs.ops = RemoteOps("windows", TRUE)
    /\ runObs.smoke = [output |-> "hello", error |-> "Traceback"]
    /\ failed = <<"win">> /\ succeeded = <<>>

\* Two FallbackRecord states that differ in the timestamp at most.
SameRecord(a, b) ==
    /\ a.exists = b.exists
    /\ a.exists => a.original = b.original /\ a.used = b.used

\* C25: of two consecutive successful package steps for the same target OS,
\* with the project's request, the install tree and the catalog unchanged, the
\* second bundles the version the first bundled and leaves the FallbackRecord as
\* the first left it, timestamp aside.
C25_RerunConverges ==
    [][/\ NextTarget
       /\ runObs.pkg = "path" /\ runObs'.pkg = "path"
       /\ runObs.os = runObs'.os
       /\ runObs.request = runObs'.request
       => /\ cp'.bundled = cp.bundled
          /\ SameRecord(fallback, fallback')]_vars

\* C26: an entry at a deterministic cache path (the tool binary of an OS, the
\* Linux runtime directory of a version) is never the partial result of a
\* download or extraction that failed.
C26_NoPartialEntry ==
    /\ \A p \in DOMAIN uvCache : uvCache[p] \in {"absent", "complete"}
    /\ \A k \in DOMAIN pyCache : pyCache[k] \in {"absent", "complete"}

\* Two path strings name the same directory on a host of the given OS: on
\* Windows both separators separate, elsewhere a backslash is a character of a
\* name.
SameDirectory(os, a, b) ==
    IF os = "windows" THEN Replace(a, "/", "\\") = Replace(b, "/", "\\")
    ELSE a = b

\* C27: the directory in which the smoke test runs the program is the final
\* install directory into which transfer_package extracted the archive and in
\* which it ran the setup script.
C27_SameFinalDir ==
    runObs.test_dir # <<>>
        => SameDirectory(runObs.os, runObs.final_dir, runObs.test_dir)

\* C28: for every archive the transfer loop ends; when it has ended the remote
\* file holds exactly the archive's content and the progress updates sum to
\* the archive's size; no write is longer than the chunk size.
C28_TransferLoop ==
    /\ <>(loop = "closed")
    /\ [](loop = "closed" =>
            /\ remote_file = local_file
            /\ advanced = Len(local_file))
    /\ [](\A i \in DOMAIN writes : writes[i] \in 1..ChunkSize)

\* An archive of more than one chunk whose size is no multiple of the chunk
\* size has been transferred.
C28_Witness ==
    /\ loop = "closed"
    /\ Len(local_file) > ChunkSize
    /\ Len(local_file) % ChunkSize # 0
    /\ Len(writes) >= 2
    /\ writes[Len(writes)] < ChunkSize

\* An archive of size zero has been transferred.
C28_WitnessEmpty == loop = "closed" /\ local_file = <<>> /\ writes = <<>>
====
